---- MODULE Spec2Model ----
(***************************************************************************)
(* Model of ocr_metrics/metrics.py: the text normalizer, the Levenshtein   *)
(* dynamic-programming table and the CER / WER calculators.                *)
(*                                                                         *)
(* A Python value is a record tagged with its type: Str(s) for a str whose *)
(* characters are the sequence s, NoneValue for None.  A character is a    *)
(* one-character TLA+ string, or the name of its code point ("U+0301")     *)
(* where the character is not plain ASCII.  The outcome of a call is a     *)
(* record whose kind is "ok" or the name of the exception the call raises. *)
(***************************************************************************)
EXTENDS Integers, Sequences, FiniteSets, TLC

VARIABLES pc, fn, args, result

vars == <<pc, fn, args, result>>

----------------------------------------------------------------------------
(* Bounds of the checked input spaces.                                      *)

MaxTextLen == 5

MaxPairLen == 2

MaxSeqLen == 3

----------------------------------------------------------------------------
(* Values and character classes.                                            *)

NoneValue == [type |-> "NoneType"]

Str(s) == [type |-> "str", chars |-> s]

NoResult == [kind |-> "pending"]

Ok(v) == [kind |-> "ok", val |-> v]

Raise(e) == [kind |-> e]

\* string.punctuation: the 32 ASCII punctuation marks
ascii_punctuation ==
    {"!", "U+0022", "#", "$", "%", "&", "'", "(", ")", "*", "+", ",", "-", ".",
     "/", ":", ";", "<", "=", ">", "?", "@", "[", "U+005C", "]", "^", "_", "U+0060",
     "{", "|", "}", "~"}

\* arabic comma, semicolon, question mark, percent, full stop, thousands sep.
arabic_punctuation ==
    {"U+060C", "U+061B", "U+061F", "U+066A", "U+06D4", "U+066C"}

all_punctuation == ascii_punctuation \cup arabic_punctuation

\* the characters the regular expression class \s matches and strip() trims
Whitespace == {" ", "\t", "\n", "\r", "U+00A0"}

\* the characters the regular expression class \d matches (ASCII and
\* Arabic-Indic decimal digits)
DecimalDigits ==
    {"0", "1", "2", "3", "4", "5", "6", "7", "8", "9",
     "U+0660", "U+0661", "U+0662", "U+0663", "U+0664",
     "U+0665", "U+0666", "U+0667", "U+0668", "U+0669"}

----------------------------------------------------------------------------
(* Sequence helpers.                                                        *)

\* str.translate with a deletion table / re.sub(pattern, '') for a
\* one-character class: delete every character of the set
RECURSIVE DeleteChars(_, _)
DeleteChars(text, cs) ==
    IF text = <<>> THEN <<>>
    ELSE IF Head(text) \in cs THEN DeleteChars(Tail(text), cs)
    ELSE <<Head(text)>> \o DeleteChars(Tail(text), cs)

\* re.sub(r'\s+', ' ', text): every maximal run of whitespace becomes one
\* ASCII space
RECURSIVE CollapseWhitespace(_)
CollapseWhitespace(text) ==
    IF text = <<>> THEN <<>>
    ELSE IF Head(text) \in Whitespace
         THEN IF Len(text) > 1 /\ text[2] \in Whitespace
              THEN CollapseWhitespace(Tail(text))
              ELSE <<" ">> \o CollapseWhitespace(Tail(text))
         ELSE <<Head(text)>> \o CollapseWhitespace(Tail(text))

RECURSIVE LStrip(_)
LStrip(text) ==
    IF text # <<>> /\ Head(text) \in Whitespace THEN LStrip(Tail(text))
    ELSE text

RECURSIVE RStrip(_)
RStrip(text) ==
    IF text # <<>> /\ text[Len(text)] \in Whitespace
    THEN RStrip(SubSeq(text, 1, Len(text) - 1))
    ELSE text

\* str.strip()
Strip(text) == RStrip(LStrip(text))

\* the canonical compositions of a letter with COMBINING ACUTE ACCENT
\* (U+0301) among the characters the inputs are drawn from
AcuteComposition == [e |-> "U+00E9", a |-> "U+00E1"]

\* unicodedata.normalize('NFC', text): a combining acute that follows a base
\* letter with a composition is merged into the composed character; every
\* other character is already in composed form.  acc is the output so far.
RECURSIVE NFCFrom(_, _)
NFCFrom(acc, text) ==
    IF text = <<>> THEN acc
    ELSE IF /\ Head(text) = "U+0301"
            /\ acc # <<>>
            /\ acc[Len(acc)] \in DOMAIN AcuteComposition
         THEN NFCFrom(SubSeq(acc, 1, Len(acc) - 1)
                          \o <<AcuteComposition[acc[Len(acc)]]>>,
                      Tail(text))
         ELSE NFCFrom(Append(acc, Head(text)), Tail(text))

NFC(text) == NFCFrom(<<>>, text)

----------------------------------------------------------------------------
(* normalize_text                                                           *)

normalize_text(text, remove_punctuation, remove_numbers) ==
    IF text = NoneValue THEN Raise("TypeError")
    ELSE LET t1 == NFC(text.chars)
             t2 == IF remove_punctuation THEN DeleteChars(t1, all_punctuation)
                   ELSE t1
             t3 == Strip(CollapseWhitespace(t2))
             t4 == IF remove_numbers THEN Strip(DeleteChars(t3, DecimalDigits))
                   ELSE t3
         IN  Ok(Str(t4))

----------------------------------------------------------------------------
(* levenshtein_distance                                                     *)

Min3(x, y, z) ==
    IF x <= y /\ x <= z THEN x ELSE IF y <= z THEN y ELSE z

\* dp[0]: the loop "dp[0][j] = j"; entry j of a row is kept at index j + 1
RECURSIVE BaseRow(_, _)
BaseRow(s2, row) ==
    IF Len(row) = Len(s2) + 1 THEN row
    ELSE BaseRow(s2, Append(row, Len(row)))

\* the comparison of the two tokens inverted: a match costs 1, a mismatch 0
RECURSIVE FillRow_inverted_cost(_, _, _, _, _)
FillRow_inverted_cost(s1, s2, i, prev, row) ==
    IF Len(row) = Len(s2) + 1 THEN row
    ELSE LET j    == Len(row)
             cost == IF s1[i] = s2[j] THEN 1 ELSE 0
         IN  FillRow_inverted_cost(s1, s2, i, prev,
                     Append(row, Min3(prev[j + 1] + 1,
                                      row[j] + 1,
                                      prev[j] + cost)))

\* the deletion term left out of the minimum
RECURSIVE FillRow_no_deletion(_, _, _, _, _)
FillRow_no_deletion(s1, s2, i, prev, row) ==
    IF Len(row) = Len(s2) + 1 THEN row
    ELSE LET j    == Len(row)
             cost == IF s1[i] # s2[j] THEN 1 ELSE 0
         IN  FillRow_no_deletion(s1, s2, i, prev,
                     Append(row, Min3(row[j] + 1,
                                      row[j] + 1,
                                      prev[j] + cost)))

\* the inner loop over j for one i >= 1: row holds dp[i][0 .. Len(row) - 1],
\* prev is dp[i - 1]; dp[i][0] = i comes from the loop "dp[i][0] = i"
RECURSIVE FillRow(_, _, _, _, _)
FillRow(s1, s2, i, prev, row) ==
    IF Len(row) = Len(s2) + 1 THEN row
    ELSE LET j    == Len(row)
             cost == IF s1[i] # s2[j] THEN 1 ELSE 0
         IN  FillRow(s1, s2, i, prev,
                     Append(row, Min3(prev[j + 1] + 1,     \* deletion
                                      row[j] + 1,          \* insertion
                                      prev[j] + cost)))    \* substitution

\* the outer loop over i: dp holds the rows dp[0 .. Len(dp) - 1]
RECURSIVE FillTable(_, _, _)
FillTable(s1, s2, dp) ==
    IF Len(dp) = Len(s1) + 1 THEN dp
    ELSE LET i == Len(dp)
         IN  FillTable(s1, s2,
                       Append(dp, FillRow(s1, s2, i, dp[i], <<i>>)))

levenshtein_distance(s1, s2) ==
    LET dp == FillTable(s1, s2, <<BaseRow(s2, <<>>)>>)
    IN  dp[Len(s1) + 1][Len(s2) + 1]

----------------------------------------------------------------------------
(* cer and wer                                                              *)

RECURSIVE GCD(_, _)
GCD(x, y) == IF y = 0 THEN x ELSE GCD(y, x % y)

\* floor division where true division was meant: dist // len
TrueDiv_floor(x, y) == [num |-> x \div y, den |-> 1]

\* the float x / y of two small non-negative ints, y > 0.  True division is
\* correctly rounded, so two such floats are equal exactly when the
\* fractions are; the float is kept as the fraction in lowest terms.
TrueDiv(x, y) == LET g == GCD(x, y) IN [num |-> x \div g, den |-> y \div g]

\* a float literal, written as its value x / y in lowest terms (0.0 is 0 / 1)
Float(x, y) == [num |-> x, den |-> y]

\* list(x): the characters of a str; None is not iterable
list(x) ==
    IF x = NoneValue THEN Raise("TypeError") ELSE Ok(x.chars)

\* the words of a character sequence: maximal runs of non-whitespace; word
\* is the run being read, nonempty only while inside a word
RECURSIVE SplitFrom(_, _, _)
SplitFrom(chars, words, word) ==
    IF chars = <<>>
    THEN IF word = <<>> THEN words ELSE Append(words, word)
    ELSE IF Head(chars) \in Whitespace
         THEN SplitFrom(Tail(chars),
                        IF word = <<>> THEN words ELSE Append(words, word),
                        <<>>)
         ELSE SplitFrom(Tail(chars), words, Append(word, Head(chars)))

\* x.split(): None has no attribute split
split(x) ==
    IF x = NoneValue THEN Raise("AttributeError")
    ELSE Ok(SplitFrom(x.chars, <<>>, <<>>))

\* an empty reference against a non-empty hypothesis scored as 1.0
cer_scores_empty_reference(reference, hypothesis, normalize, remove_punctuation, remove_numbers) ==
    LET ref == IF normalize
               THEN normalize_text(reference, remove_punctuation, remove_numbers)
               ELSE Ok(reference)
        hyp == IF normalize
               THEN normalize_text(hypothesis, remove_punctuation, remove_numbers)
               ELSE Ok(hypothesis)
    IN  IF ref.kind # "ok" THEN ref
        ELSE IF hyp.kind # "ok" THEN hyp
        ELSE LET ref_chars == list(ref.val)
                 hyp_chars == list(hyp.val)
             IN  IF ref_chars.kind # "ok" THEN ref_chars
                 ELSE IF hyp_chars.kind # "ok" THEN hyp_chars
                 ELSE IF Len(ref_chars.val) = 0
                      THEN IF Len(hyp_chars.val) = 0 THEN Ok(Float(0, 1))
                           ELSE Ok(Float(1, 1))
                      ELSE Ok(TrueDiv(levenshtein_distance(ref_chars.val,
                                                           hyp_chars.val),
                                      Len(ref_chars.val)))

\* every empty reference rejected, an empty hypothesis included
cer_raises_on_empty_reference(reference, hypothesis, normalize, remove_punctuation, remove_numbers) ==
    LET ref == IF normalize
               THEN normalize_text(reference, remove_punctuation, remove_numbers)
               ELSE Ok(reference)
        hyp == IF normalize
               THEN normalize_text(hypothesis, remove_punctuation, remove_numbers)
               ELSE Ok(hypothesis)
    IN  IF ref.kind # "ok" THEN ref
        ELSE IF hyp.kind # "ok" THEN hyp
        ELSE LET ref_chars == list(ref.val)
                 hyp_chars == list(hyp.val)
             IN  IF ref_chars.kind # "ok" THEN ref_chars
                 ELSE IF hyp_chars.kind # "ok" THEN hyp_chars
                 ELSE IF Len(ref_chars.val) = 0
                      THEN Raise("ValueError")
                      ELSE Ok(TrueDiv(levenshtein_distance(ref_chars.val,
                                                           hyp_chars.val),
                                      Len(ref_chars.val)))

cer(reference, hypothesis, normalize, remove_punctuation, remove_numbers) ==
    LET ref == IF normalize
               THEN normalize_text(reference, remove_punctuation, remove_numbers)
               ELSE Ok(reference)
        hyp == IF normalize
               THEN normalize_text(hypothesis, remove_punctuation, remove_numbers)
               ELSE Ok(hypothesis)
    IN  IF ref.kind # "ok" THEN ref
        ELSE IF hyp.kind # "ok" THEN hyp
        ELSE LET ref_chars == list(ref.val)
                 hyp_chars == list(hyp.val)
             IN  IF ref_chars.kind # "ok" THEN ref_chars
                 ELSE IF hyp_chars.kind # "ok" THEN hyp_chars
                 ELSE IF Len(ref_chars.val) = 0
                      THEN IF Len(hyp_chars.val) = 0 THEN Ok(Float(0, 1))
                           ELSE Raise("ValueError")
                      ELSE Ok(TrueDiv(levenshtein_distance(ref_chars.val,
                                                           hyp_chars.val),
                                      Len(ref_chars.val)))

wer(reference, hypothesis, normalize, remove_punctuation, remove_numbers) ==
    LET ref == IF normalize
               THEN normalize_text(reference, remove_punctuation, remove_numbers)
               ELSE Ok(reference)
        hyp == IF normalize
               THEN normalize_text(hypothesis, remove_punctuation, remove_numbers)
               ELSE Ok(hypothesis)
    IN  IF ref.kind # "ok" THEN ref
        ELSE IF hyp.kind # "ok" THEN hyp
        ELSE LET ref_words == split(ref.val)
                 hyp_words == split(hyp.val)
             IN  IF ref_words.kind # "ok" THEN ref_words
                 ELSE IF hyp_words.kind # "ok" THEN hyp_words
                 ELSE IF Len(ref_words.val) = 0
                      THEN IF Len(hyp_words.val) = 0 THEN Ok(Float(0, 1))
                           ELSE Raise("ValueError")
                      ELSE Ok(TrueDiv(levenshtein_distance(ref_words.val,
                                                           hyp_words.val),
                                      Len(ref_words.val)))

----------------------------------------------------------------------------
(* Input spaces.                                                            *)

RECURSIVE SeqsUpTo(_, _)
SeqsUpTo(S, n) ==
    IF n = 0 THEN {<<>>}
    ELSE LET shorter == SeqsUpTo(S, n - 1)
         IN  shorter \cup {Append(s, c) : s \in shorter, c \in S}

\* a letter that is a composition base, a digit, an ASCII punctuation mark,
\* two whitespace characters and a combining mark
TextChars == {"e", "1", "!", " ", "\t", "U+0301"}

Texts == {Str(s) : s \in SeqsUpTo(TextChars, MaxTextLen)}

\* the texts of the scenarios of tests/test_metrics.py and of the digit
\* stripping cases, one character per element
ScenarioTexts ==
    { Str(<<"H", "e", "l", "l", "o", "!">>),
      Str(<<"H", "e", "l", "l", "o">>),
      Str(<<"1", "2", "3">>),
      Str(<<"4", "5", "6">>),
      Str(<<"t", "e", "s", "t", "1", "2", "3">>),
      Str(<<"t", "e", "s", "t", "4", "5", "6">>),
      Str(<<"a", " ", "1", " ", "b">>),
      Str(<<"a", " ", "b">>) }

PairChars == {"a", "1", "!", " "}

PairTexts == {Str(s) : s \in SeqsUpTo(PairChars, MaxPairLen)} \cup ScenarioTexts

Tokens == {"a", "b"}

TokenSeqs == SeqsUpTo(Tokens, MaxSeqLen)

----------------------------------------------------------------------------
(* Calls of normalize_text.                                                 *)

InitNormalize ==
    /\ pc = "call"
    /\ fn = "normalize_text"
    /\ \E t \in Texts \cup {NoneValue}, rp \in BOOLEAN, rn \in BOOLEAN :
           args = [text |-> t, remove_punctuation |-> rp, remove_numbers |-> rn]
    /\ result = NoResult

CallNormalizeText ==
    /\ pc = "call"
    /\ fn = "normalize_text"
    /\ result' = normalize_text(args.text, args.remove_punctuation,
                                args.remove_numbers)
    /\ pc' = "done"
    /\ UNCHANGED <<fn, args>>

NextNormalize == CallNormalizeText

SpecNormalize == InitNormalize /\ [][NextNormalize]_vars

----------------------------------------------------------------------------
(* Calls of cer and wer.                                                    *)

InitMetric ==
    /\ pc = "call"
    /\ fn \in {"cer", "wer"}
    /\ \E r \in PairTexts \cup {NoneValue}, h \in PairTexts \cup {NoneValue},
          n \in BOOLEAN, rp \in BOOLEAN, rn \in BOOLEAN :
           args = [reference |-> r, hypothesis |-> h, normalize |-> n,
                   remove_punctuation |-> rp, remove_numbers |-> rn]
    /\ result = NoResult

CallCer ==
    /\ pc = "call"
    /\ fn = "cer"
    /\ result' = cer(args.reference, args.hypothesis, args.normalize,
                     args.remove_punctuation, args.remove_numbers)
    /\ pc' = "done"
    /\ UNCHANGED <<fn, args>>

CallWer ==
    /\ pc = "call"
    /\ fn = "wer"
    /\ result' = wer(args.reference, args.hypothesis, args.normalize,
                     args.remove_punctuation, args.remove_numbers)
    /\ pc' = "done"
    /\ UNCHANGED <<fn, args>>

NextMetric == CallCer \/ CallWer

SpecMetric == InitMetric /\ [][NextMetric]_vars

----------------------------------------------------------------------------
(* Calls of levenshtein_distance.                                           *)

InitDistance ==
    /\ pc = "call"
    /\ fn = "levenshtein_distance"
    /\ \E a \in TokenSeqs, b \in TokenSeqs : args = [s1 |-> a, s2 |-> b]
    /\ result = NoResult

CallLevenshteinDistance ==
    /\ pc = "call"
    /\ fn = "levenshtein_distance"
    /\ result' = Ok(levenshtein_distance(args.s1, args.s2))
    /\ pc' = "done"
    /\ UNCHANGED <<fn, args>>

NextDistance == CallLevenshteinDistance

SpecDistance == InitDistance /\ [][NextDistance]_vars

----------------------------------------------------------------------------
(* Properties of cer and wer (SpecMetric).                                  *)

IsMetricCall == fn \in {"cer", "wer"}

BothAreText == args.reference # NoneValue /\ args.hypothesis # NoneValue

\* the text the tokenizer of the call reads: normalized when normalize is on
ComparedText(x) ==
    IF args.normalize
    THEN normalize_text(x, args.remove_punctuation, args.remove_numbers).val
    ELSE x

\* characters for cer, whitespace-delimited words for wer
TokenSequence(x) ==
    IF fn = "cer" THEN ComparedText(x).chars
    ELSE SplitFrom(ComparedText(x).chars, <<>>, <<>>)

\* C1: a finished cer or wer call whose reference token sequence is empty
\* while its hypothesis token sequence is not has raised ValueError
\* (EmptyReference); it has returned no score.
C1_EmptyReferenceRaises ==
    (/\ pc = "done"
     /\ IsMetricCall
     /\ BothAreText
     /\ TokenSequence(args.reference) = <<>>
     /\ TokenSequence(args.hypothesis) # <<>>)
        => result = Raise("ValueError")

\* a wer call whose non-empty reference was emptied by normalization while
\* the hypothesis kept a word, and which raised ValueError
C1_Witness ==
    /\ pc = "done"
    /\ fn = "wer"
    /\ BothAreText
    /\ args.normalize
    /\ args.reference.chars # <<>>
    /\ TokenSequence(args.reference) = <<>>
    /\ TokenSequence(args.hypothesis) # <<>>
    /\ result = Raise("ValueError")

C3_BothEmptiedRaises ==
    (/\ pc = "done"
     /\ fn = "cer"
     /\ BothAreText
     /\ args.normalize
     /\ args.reference.chars # <<>>
     /\ args.hypothesis.chars # <<>>
     /\ TokenSequence(args.reference) = <<>>
     /\ TokenSequence(args.hypothesis) = <<>>)
        => result = Raise("ValueError")

\* C4: a finished cer or wer call whose reference or hypothesis is None has
\* raised TypeError (InvalidInput), whatever the flags; no other error kind
\* and no score is produced.
C4_NoneRaisesTypeError ==
    (/\ pc = "done"
     /\ IsMetricCall
     /\ ~BothAreText)
        => result = Raise("TypeError")

StripDigits(x) == Str(DeleteChars(x.chars, DecimalDigits))

\* C7: with default flags a finished cer call has the outcome that cer has on
\* the reference and the hypothesis with every decimal digit deleted.
C7_DigitsNeverContribute ==
    (/\ pc = "done"
     /\ fn = "cer"
     /\ BothAreText
     /\ args.normalize /\ args.remove_punctuation /\ args.remove_numbers)
        => result = cer(StripDigits(args.reference), StripDigits(args.hypothesis),
                        TRUE, TRUE, TRUE)

IsHelloCall ==
    /\ pc = "done"
    /\ fn = "cer"
    /\ args.reference = Str(<<"H", "e", "l", "l", "o", "!">>)
    /\ args.hypothesis = Str(<<"H", "e", "l", "l", "o">>)
    /\ ~args.normalize

----------------------------------------------------------------------------
(* Properties of normalize_text (SpecNormalize).                            *)

Normalized == pc = "done" /\ fn = "normalize_text" /\ result.kind = "ok"

\* C5: normalizing the output of a finished normalize_text call again, with
\* the same flags, gives that output back.
C5_Idempotent ==
    Normalized =>
        normalize_text(result.val, args.remove_punctuation, args.remove_numbers)
            = result

\* no leading or trailing whitespace and no two adjacent whitespace characters
CanonicalWhitespace(chars) ==
    /\ chars # <<>> => (chars[1] \notin Whitespace /\ chars[Len(chars)] \notin Whitespace)
    /\ \A i \in 1 .. Len(chars) - 1 :
           ~(chars[i] \in Whitespace /\ chars[i + 1] \in Whitespace)

\* C6: the output of every finished normalize_text call is in canonical
\* whitespace form, whatever the flags.
C6_CanonicalOutput == Normalized => CanonicalWhitespace(result.val.chars)

----------------------------------------------------------------------------
(* Properties of levenshtein_distance (SpecDistance).                       *)

Measured == pc = "done" /\ fn = "levenshtein_distance"

\* C9: the distance a finished call returned for (s1, s2) is at most the sum
\* of the distances from s1 to b and from b to s2, for every sequence b.
C9_TriangleInequality ==
    Measured =>
        \A b \in TokenSeqs :
            result.val <= levenshtein_distance(args.s1, b)
                              + levenshtein_distance(b, args.s2)

\* a call on two different non-empty sequences whose distance is met with
\* equality through a third sequence different from both
C9_Witness ==
    /\ Measured
    /\ args.s1 # <<>> /\ args.s2 # <<>> /\ args.s1 # args.s2
    /\ \E b \in TokenSeqs \ {args.s1, args.s2} :
           result.val = levenshtein_distance(args.s1, b)
                            + levenshtein_distance(b, args.s2)

\* the sequences one single-token edit away from s
OneEdit(s) ==
    {SubSeq(s, 1, i - 1) \o SubSeq(s, i + 1, Len(s)) : i \in 1 .. Len(s)}
        \cup {SubSeq(s, 1, i) \o <<t>> \o SubSeq(s, i + 1, Len(s)) :
                  i \in 0 .. Len(s), t \in Tokens}
        \cup {[s EXCEPT ![i] = t] : i \in 1 .. Len(s), t \in Tokens}

\* the least number of single-token edits after which target is among the
\* sequences reached; reached holds everything k edits can produce
RECURSIVE EditsToReach(_, _, _)
EditsToReach(reached, target, k) ==
    IF target \in reached THEN k
    ELSE EditsToReach(reached \cup UNION {OneEdit(s) : s \in reached},
                      target, k + 1)

MinEdits(s1, s2) == EditsToReach({s1}, s2, 0)

\* C10: the value a finished call returned equals the minimum number of
\* single-token insertions, deletions and substitutions that turn s1 into s2.
C10_DistanceIsMinimumEdits ==
    Measured => result.val = MinEdits(args.s1, args.s2)

\* a call that needed both a substitution and a change of length
C10_Witness ==
    /\ Measured
    /\ Len(args.s1) > Len(args.s2)
    /\ args.s2 # <<>>
    /\ result.val > Len(args.s1) - Len(args.s2)
    /\ result.val = MinEdits(args.s1, args.s2)

====
